---- MODULE Spec2Model ----
(***************************************************************************)
(* Discovery engine of uvrl: manifest parser, library resolver, manifest   *)
(* scanner, filesystem walker, aggregator, the config store and its        *)
(* commands, and the sensor state machine.                                 *)
(*                                                                         *)
(* Text is modelled as a sequence of tokens (a token is a one-character or *)
(* an atomic multi-character string); the quote character is the token Q.  *)
(* A Python dict is a set of [k, v] records with pairwise distinct keys.   *)
(***************************************************************************)
EXTENDS Integers, Sequences, FiniteSets, TLC

VARIABLES
    text,       \* the lines of the manifest file being parsed
    pos,        \* number of lines the parser has consumed
    data,       \* parse_acf: the dict built so far
    pstate,     \* parse_acf: "start", "reading", "done"
    ioerr,      \* parse_acf: "none", "open" (open failed), "read" (read failed)
    osType,     \* get_os(): "windows", "linux" or "unknown"
    roots,      \* the configured roots handed to the walker
    excluded,   \* the excluded_dir_names handed to the walker
    mounted,    \* the root paths that exist at scan time
    dirNames,   \* the directory names that occur in the tree below a root
    discovered, \* the walker's list of DiscoveredApp
    ri,         \* index of the root the walker's loop is at
    wstate,     \* walker: "idle", "walking", "done"
    existing,   \* the steam root and steamapps directories that exist on disk
    vdfState,   \* libraryfolders.vdf: "absent", "unreadable" or "ok"
    vdf,        \* the lines of libraryfolders.vdf
    resolve,    \* Path.resolve on the steamapps directories (symlinks)
    libraries,  \* the list returned by find_steam_libraries
    lstate,     \* resolver: "idle", "ready", "done", "again" (called a second time)
    manifests,  \* the appmanifest_*.acf files of the default library, in glob order
    allowlist,  \* applist.json: "missing", "unreadable", "invalid" or its steam_apps keys
    authoritative, \* the authoritative flag of discover
    steamEnabled,  \* cfg["steam_enabled"]
    platform,   \* discover: the platform-sourced entries
    results,    \* discover: the returned list
    dstate,     \* discover: "idle", "start", "platform", "done", "raised"
    store,      \* the config file: its state ("absent", "unreadable", "corrupt",
                \* "empty", "torn", "valid") and, when valid, its JSON text
    env,        \* the environment variables that are set
    loaded,     \* the value load_config returned
    cstate,     \* config cycle: "idle", "start", "done", "saved", "reloaded", "raised"
    reloaded,   \* the value the second load_config returned
    links,      \* the paths that are symbolic links at command time
    cmd,        \* per command run: the command line (op, path, flags)
    cfg,        \* per command run: the cfg the command loaded
    pc,         \* per command run: "idle", "loaded", "done"
    ret,        \* per command run: the return code
    writes,     \* the save_config calls performed, in order
    sensor,     \* SensorStub.state
    vr_state,   \* StateMachine.vr_state
    _last_sensor_state, \* StateMachine._last_sensor_state
    readings,   \* the sensor states handed to update, in order
    driver      \* who calls update: "idle", "main" (the loop of main) or "any"

parserVars == <<text, pos, data, pstate, ioerr>>

walkerVars == <<osType, roots, excluded, mounted, dirNames, discovered, ri, wstate>>

libVars == <<existing, vdfState, vdf, resolve, libraries, lstate>>

aggVars == <<manifests, allowlist, authoritative, steamEnabled, platform, results, dstate>>

cfgVars == <<store, env, loaded, cstate, reloaded>>

cmdVars == <<links, cmd, cfg, pc, ret, writes>>

smVars == <<sensor, vr_state, _last_sensor_state, readings, driver>>

vars == <<text, pos, data, pstate, ioerr,
          osType, roots, excluded, mounted, dirNames, discovered, ri, wstate,
          existing, vdfState, vdf, resolve, libraries, lstate,
          manifests, allowlist, authoritative, steamEnabled, platform, results, dstate,
          store, env, loaded, cstate, reloaded,
          links, cmd, cfg, pc, ret, writes,
          sensor, vr_state, _last_sensor_state, readings, driver>>

otherThanParser == <<walkerVars, libVars, aggVars, cfgVars, cmdVars, smVars>>

otherThanWalker == <<parserVars, libVars, aggVars, cfgVars, cmdVars, smVars>>

otherThanLib == <<parserVars, roots, excluded, mounted, dirNames, discovered, ri, wstate,
                  aggVars, cfgVars, cmdVars, smVars>>

otherThanAgg == <<parserVars, walkerVars, libVars, cfgVars, cmdVars, smVars>>

otherThanCfg == <<parserVars, osType, roots, excluded, mounted, dirNames, discovered, ri,
                  wstate, libVars, aggVars, cmdVars, smVars>>

otherThanCmd == <<parserVars, osType, roots, excluded, mounted, dirNames, discovered, ri, wstate,
                  libVars, aggVars, env, loaded, cstate, reloaded, smVars>>

otherThanSm == <<parserVars, walkerVars, libVars, aggVars, cfgVars, cmdVars>>

(***************************************************************************)
(* Bounds                                                                  *)
(***************************************************************************)
MaxLineLen == 6
MaxTreeDepth == 3
MaxCfgDepth == 3
MaxVdfLines == 3
MaxManifests == 2
MaxReadings == 6

(***************************************************************************)
(* A component that is not exercised by a specification rests             *)
(***************************************************************************)
ParserIdle ==
    /\ text = <<>>
    /\ pos = 0
    /\ data = {}
    /\ pstate = "idle"
    /\ ioerr = "none"

WalkerIdle ==
    /\ osType = "unknown"
    /\ roots = <<>>
    /\ excluded = {}
    /\ mounted = {}
    /\ dirNames = {}
    /\ discovered = <<>>
    /\ ri = 1
    /\ wstate = "idle"

LibIdle ==
    /\ existing = {}
    /\ vdfState = "absent"
    /\ vdf = <<>>
    /\ resolve = <<>>
    /\ libraries = <<>>
    /\ lstate = "idle"

AggIdle ==
    /\ manifests = <<>>
    /\ allowlist = {}
    /\ authoritative = FALSE
    /\ steamEnabled = FALSE
    /\ platform = <<>>
    /\ results = <<>>
    /\ dstate = "idle"

CfgIdle ==
    /\ store = [state |-> "absent", doc |-> <<>>]
    /\ env = {}
    /\ loaded = <<>>
    /\ cstate = "idle"
    /\ reloaded = <<>>

CmdIdle ==
    /\ links = {}
    /\ cmd = <<>>
    /\ cfg = <<>>
    /\ pc = <<>>
    /\ ret = <<>>
    /\ writes = <<>>

SmIdle ==
    /\ sensor = "CLEAR"
    /\ vr_state = "OUTSIDE_VR"
    /\ _last_sensor_state = "None"
    /\ readings = <<>>
    /\ driver = "idle"

(***************************************************************************)
(* String helpers (str.strip, str.count, str.split, str.startswith)        *)
(***************************************************************************)
Q == "\""

IsSpace(c) == c = " "

RECURSIVE LStrip(_)
LStrip(s) == IF s # <<>> /\ IsSpace(Head(s)) THEN LStrip(Tail(s)) ELSE s

RECURSIVE RStrip(_)
RStrip(s) ==
    IF s # <<>> /\ IsSpace(s[Len(s)]) THEN RStrip(SubSeq(s, 1, Len(s) - 1)) ELSE s

Strip(s) == RStrip(LStrip(s))

CountQ(s) == Cardinality({i \in 1..Len(s) : s[i] = Q})

StartsWith(s, p) == Len(s) >= Len(p) /\ SubSeq(s, 1, Len(p)) = p

\* s.split(sep): the list of the pieces between the occurrences of sep
RECURSIVE Split(_, _)
Split(s, sep) ==
    IF s = <<>> THEN << <<>> >>
    ELSE LET rest == Split(Tail(s), sep) IN
         IF Head(s) = sep THEN << <<>> >> \o rest
         ELSE << <<Head(s)>> \o rest[1] >> \o Tail(rest)

\* s.split('"')
SplitQ(s) == Split(s, Q)

(***************************************************************************)
(* Dicts                                                                   *)
(***************************************************************************)
EmptyDict == {}

Put(d, key, value) == {e \in d : e.k # key} \cup {[k |-> key, v |-> value]}

HasKey(d, key) == \E e \in d : e.k = key

Get(d, key, default) ==
    IF HasKey(d, key) THEN (CHOOSE e \in d : e.k = key).v ELSE default

(***************************************************************************)
(* ManifestParser: parse_acf                                               *)
(***************************************************************************)
\* a buggy body of the loop: the value is taken from the third piece
ParseLineThirdPiece(d, line) ==
    LET l == Strip(line) IN
    IF l = <<>> \/ StartsWith(l, <<"/", "/">>) THEN d
    ELSE IF CountQ(l) >= 4
         THEN LET parts == SplitQ(l) IN Put(d, parts[2], parts[3])
         ELSE d

\* the body of the loop over the lines of the file
ParseLine(d, line) ==
    LET l == Strip(line) IN
    IF l = <<>> \/ StartsWith(l, <<"/", "/">>) THEN d
    ELSE IF CountQ(l) >= 4
         THEN LET parts == SplitQ(l) IN Put(d, parts[2], parts[4])
         ELSE d

\* parse_acf on a file that opens and reads without error
RECURSIVE ParseLines(_, _)
ParseLines(d, lines) ==
    IF lines = <<>> THEN d ELSE ParseLines(ParseLine(d, Head(lines)), Tail(lines))

ParseAcfText(lines) == ParseLines(EmptyDict, lines)

Chars == {Q, "a", " ", "/"}

AllLines == UNION {[1..n -> Chars] : n \in 0..MaxLineLen}

\* a first line that is a well-formed pair, followed by an arbitrary line
SeedLines == { <<Q, "a", Q, " ", Q, "a", Q>>, <<Q, "/", Q, " ", " ", Q, Q>> }

ParserInputs ==
    {<<l>> : l \in AllLines} \cup {<<s, l>> : s \in SeedLines, l \in AllLines}

InitParser ==
    /\ text \in ParserInputs
    /\ pos = 0
    /\ data = EmptyDict
    /\ pstate = "start"
    /\ ioerr = "none"
    /\ WalkerIdle
    /\ LibIdle
    /\ AggIdle
    /\ CfgIdle
    /\ CmdIdle
    /\ SmIdle

\* path.open(...) succeeds
OpenOk ==
    /\ pstate = "start"
    /\ pstate' = "reading"
    /\ UNCHANGED <<text, pos, data, ioerr>>
    /\ UNCHANGED otherThanParser

\* path.open(...) raises OSError, caught by the except clause
OpenFail ==
    /\ pstate = "start"
    /\ pstate' = "done"
    /\ ioerr' = "open"
    /\ UNCHANGED <<text, pos, data>>
    /\ UNCHANGED otherThanParser

\* one iteration of "for line in f"
ReadLine ==
    /\ pstate = "reading"
    /\ pos < Len(text)
    /\ data' = ParseLine(data, text[pos + 1])
    /\ pos' = pos + 1
    /\ UNCHANGED <<text, pstate, ioerr>>
    /\ UNCHANGED otherThanParser

\* the iteration raises OSError while reading, caught by the except clause
ReadFail ==
    /\ pstate = "reading"
    /\ pos < Len(text)
    /\ pstate' = "done"
    /\ ioerr' = "read"
    /\ UNCHANGED <<text, pos, data>>
    /\ UNCHANGED otherThanParser

\* end of file: return data
ReadEof ==
    /\ pstate = "reading"
    /\ pos = Len(text)
    /\ pstate' = "done"
    /\ UNCHANGED <<text, pos, data, ioerr>>
    /\ UNCHANGED otherThanParser

NextParser == OpenOk \/ OpenFail \/ ReadLine \/ ReadFail \/ ReadEof

SpecParser == InitParser /\ [][NextParser]_vars

(***************************************************************************)
(* C6: what the parser is to extract, stated on the positions of the quote *)
(* characters of the trimmed line                                          *)
(***************************************************************************)
Trimmed(line) ==
    LET ns == {i \in 1..Len(line) : line[i] # " "} IN
    IF ns = {} THEN <<>>
    ELSE SubSeq(line, CHOOSE i \in ns : \A j \in ns : i <= j,
                      CHOOSE i \in ns : \A j \in ns : i >= j)

QuotePositions(s) == {i \in 1..Len(s) : s[i] = Q}

NthQuote(s, n) ==
    CHOOSE i \in QuotePositions(s) :
        Cardinality({j \in QuotePositions(s) : j <= i}) = n

IsComment(s) == Len(s) >= 2 /\ s[1] = "/" /\ s[2] = "/"

WellFormed(line) ==
    LET s == Trimmed(line) IN
    s # <<>> /\ ~IsComment(s) /\ Cardinality(QuotePositions(s)) >= 4

KeyOf(line) ==
    LET s == Trimmed(line) IN SubSeq(s, NthQuote(s, 1) + 1, NthQuote(s, 2) - 1)

ValueOf(line) ==
    LET s == Trimmed(line) IN SubSeq(s, NthQuote(s, 3) + 1, NthQuote(s, 4) - 1)

\* the pair of every well-formed line, a later line with the same key winning
ExpectedPairs(lines) ==
    {[k |-> KeyOf(lines[i]), v |-> ValueOf(lines[i])] :
        i \in {i \in 1..Len(lines) :
                 /\ WellFormed(lines[i])
                 /\ ~\E j \in (i + 1)..Len(lines) :
                        WellFormed(lines[j]) /\ KeyOf(lines[j]) = KeyOf(lines[i])}}

OSTypes == {"windows", "linux", "unknown"}

executable_extensions(os) ==
    IF os = "windows"
    THEN {<<".", "exe">>, <<".", "bat">>, <<".", "cmd">>, <<".", "ps1">>, <<".", "py">>}
    ELSE IF os = "linux"
         THEN {<<".", "sh">>, <<".", "py">>}
         ELSE {}

(***************************************************************************)
(* Names and paths: str.lower, PurePath.suffix, PurePath.stem              *)
(***************************************************************************)
\* str.lower on the tokens that occur in names
LowerToken(t) ==
    CASE t = "Temp" -> "temp"
      [] t = "TEMP" -> "temp"
      [] t = "EXE"  -> "exe"
      [] t = "B"    -> "b"
      [] OTHER      -> t

Lower(s) == [i \in 1..Len(s) |-> LowerToken(s[i])]

\* name.rfind('.') as a 1-based index, 0 when there is no dot
LastDot(name) ==
    LET dots == {i \in 1..Len(name) : name[i] = "."} IN
    IF dots = {} THEN 0 ELSE CHOOSE i \in dots : \A j \in dots : j <= i

\* PurePath.suffix: empty when the only dot leads or ends the name
Suffix(name) ==
    LET i == LastDot(name) IN
    IF 1 < i /\ i < Len(name) THEN SubSeq(name, i, Len(name)) ELSE <<>>

\* PurePath.stem
Stem(name) ==
    LET i == LastDot(name) IN
    IF 1 < i /\ i < Len(name) THEN SubSeq(name, 1, i - 1) ELSE name

(***************************************************************************)
(* The directory tree at scan time: below every root, every path of at     *)
(* most MaxTreeDepth names of dirNames is a directory, and every directory *)
(* holds the files of FileNames.                                           *)
(***************************************************************************)
RootPaths == <<"R1", "R2">>

\* the order in which os.walk lists the entries of a directory
DirNameOrder == <<".venv", "Temp", "temp", "x">>

FileNameOrder ==
    << <<"a", ".", "exe">>, <<"B", ".", "EXE">>, <<"s", ".", "sh">>,
       <<"tool">>, <<".", "exe">>, <<"n", ".", "txt">> >>

\* the files that carry the executable permission bit
ExecBitFiles == { <<"tool">>, <<".", "exe">> }

DirNameFamilies == { {"x"}, {"x", "temp"}, {"x", "Temp"}, {"x", ".venv"} }

ExcludeSets == { {}, {"temp"}, {"Temp"}, {"temp", "Temp"} }

\* the subdirectories os.walk lists in the directory dir
ChildDirNames(dir) ==
    LET Present(n) == n \in dirNames IN
    IF Len(dir) < MaxTreeDepth THEN SelectSeq(DirNameOrder, Present) ELSE <<>>

RECURSIVE JoinDir(_)
JoinDir(dir) ==
    IF dir = <<>> THEN <<>> ELSE <<"/", Head(dir)>> \o JoinDir(Tail(dir))

\* dp / fn, as the tokens of the path
PathOf(root, dir, fn) == <<root>> \o JoinDir(dir) \o <<"/">> \o fn

(***************************************************************************)
(* FilesystemWalker: discover_filesystem_apps_optin                        *)
(***************************************************************************)
FsConfidence == 40

_is_linux_executable(fn) == fn \in ExecBitFiles

\* the three branches on os_type that decide whether a file is kept
IsLaunchable(fn) ==
    IF osType = "windows" THEN Lower(Suffix(fn)) \in executable_extensions(osType)
    ELSE IF osType = "linux"
         THEN Lower(Suffix(fn)) \in executable_extensions(osType)
              \/ _is_linux_executable(fn)
         ELSE Lower(Suffix(fn)) \in executable_extensions(osType)

FsApp(root, dir, fn) ==
    [name |-> Stem(fn), path |-> PathOf(root, dir, fn),
     source |-> "filesystem", confidence |-> FsConfidence]

RECURSIVE FilesIn(_, _, _)
FilesIn(root, dir, fns) ==
    IF fns = <<>> THEN <<>>
    ELSE (IF IsLaunchable(Head(fns)) THEN <<FsApp(root, dir, Head(fns))>> ELSE <<>>)
         \o FilesIn(root, dir, Tail(fns))

\* dirnames[:] = [d for d in dirnames if d.lower() not in excluded_dir_names]
KeptDirNames(names) ==
    LET Kept(d) == LowerToken(d) \notin excluded IN SelectSeq(names, Kept)

\* a walker that descends one level too far
PruneBelow(depth, max_depth) == depth > max_depth

\* if depth >= max_depth: dirnames[:] = []
PruneAt(depth, max_depth) == depth >= max_depth

\* if not recursive: max_depth = 1
EffectiveMaxDepth(r) == IF ~r.recursive THEN 1 ELSE r.max_depth

\* os.walk(root), top-down, with the pruning of dirnames done by the loop body
RECURSIVE WalkDir(_, _, _), WalkChildren(_, _, _, _)
WalkDir(root, dir, max_depth) ==
    LET kept    == KeptDirNames(ChildDirNames(dir))
        descend == IF PruneAt(Len(dir), max_depth) THEN <<>> ELSE kept
    IN  FilesIn(root, dir, FileNameOrder) \o WalkChildren(root, dir, descend, max_depth)

WalkChildren(root, dir, names, max_depth) ==
    IF names = <<>> THEN <<>>
    ELSE WalkDir(root, Append(dir, Head(names)), max_depth)
         \o WalkChildren(root, dir, Tail(names), max_depth)

\* a walker that ignores the enabled flag
RootEnabledAlways(r) == TRUE

\* r.get("enabled", False)
RootEnabled(r) == r.enabled

\* root.exists()
RootExists(r) == r.path \in mounted

RootSpecs(p) ==
    [path : {p}, enabled : BOOLEAN, recursive : BOOLEAN,
     max_depth : 0..MaxCfgDepth, label : {"Custom"}]

RootLists ==
    {<<r>> : r \in RootSpecs(RootPaths[1])}
    \cup {<<r1, r2>> : r1 \in RootSpecs(RootPaths[1]), r2 \in RootSpecs(RootPaths[2])}

InitWalker ==
    /\ osType \in OSTypes
    /\ roots \in RootLists
    /\ excluded \in ExcludeSets
    /\ mounted \in SUBSET {RootPaths[i] : i \in 1..Len(RootPaths)}
    /\ dirNames \in DirNameFamilies
    /\ discovered = <<>>
    /\ ri = 1
    /\ wstate = "walking"
    /\ ParserIdle
    /\ LibIdle
    /\ AggIdle
    /\ CfgIdle
    /\ CmdIdle
    /\ SmIdle

\* if not r.get("enabled", False): continue
SkipDisabledRoot ==
    /\ wstate = "walking"
    /\ ri <= Len(roots)
    /\ ~RootEnabled(roots[ri])
    /\ ri' = ri + 1
    /\ UNCHANGED <<osType, roots, excluded, mounted, dirNames, discovered, wstate>>
    /\ UNCHANGED otherThanWalker

\* if not root.exists(): continue
SkipMissingRoot ==
    /\ wstate = "walking"
    /\ ri <= Len(roots)
    /\ RootEnabled(roots[ri])
    /\ ~RootExists(roots[ri])
    /\ ri' = ri + 1
    /\ UNCHANGED <<osType, roots, excluded, mounted, dirNames, discovered, wstate>>
    /\ UNCHANGED otherThanWalker

\* the os.walk loop over one enabled, existing root
WalkRoot ==
    /\ wstate = "walking"
    /\ ri <= Len(roots)
    /\ RootEnabled(roots[ri])
    /\ RootExists(roots[ri])
    /\ discovered' = discovered
           \o WalkDir(roots[ri].path, <<>>, EffectiveMaxDepth(roots[ri]))
    /\ ri' = ri + 1
    /\ UNCHANGED <<osType, roots, excluded, mounted, dirNames, wstate>>
    /\ UNCHANGED otherThanWalker

\* return discovered
WalkReturn ==
    /\ wstate = "walking"
    /\ ri > Len(roots)
    /\ wstate' = "done"
    /\ UNCHANGED <<osType, roots, excluded, mounted, dirNames, discovered, ri>>
    /\ UNCHANGED otherThanWalker

NextWalker == SkipDisabledRoot \/ SkipMissingRoot \/ WalkRoot \/ WalkReturn

SpecWalker == InitWalker /\ [][NextWalker]_vars

(***************************************************************************)
(* LibraryResolver: find_steam_root, parse_libraryfolders_vdf,             *)
(* find_steam_libraries                                                    *)
(***************************************************************************)
\* the well-known install directory of the OS; <<>> where the code has none
SteamRootPath(os) ==
    IF os = "windows" THEN <<"C:/Program Files (x86)/Steam">>
    ELSE IF os = "linux" THEN <<"~/.steam/steam">>
         ELSE <<>>

\* p / name
JoinPath(p, name) == IF p = <<>> THEN <<name>> ELSE p \o <<"/", name>>

\* the directories a library list can name: the steam root and two more
SteamRoots(os) == IF SteamRootPath(os) = <<>> THEN {} ELSE {SteamRootPath(os)}

LibRoots(os) == SteamRoots(os) \cup { <<"D1">>, <<"D2">> }

LibDirs(os) == {JoinPath(r, "steamapps") : r \in LibRoots(os)}

\* a line "path"  "<dir>" of the library list
VdfPathLine(r) == <<Q, "path", Q, " ", " ", Q>> \o r \o <<Q>>

VdfLineSet(os) ==
    {VdfPathLine(r) : r \in LibRoots(os)}
    \cup { <<Q, "libraryfolders", Q>>, <<Q, "label", Q, " ", Q, Q>> }

VdfContents(os) == UNION {[1..n -> VdfLineSet(os)] : n \in 0..MaxVdfLines}

\* find_steam_root; None is <<>>
find_steam_root ==
    IF osType = "windows" \/ osType = "linux"
    THEN (IF SteamRootPath(osType) \in existing THEN SteamRootPath(osType) ELSE <<>>)
    ELSE <<>>

\* the body of the loop of parse_libraryfolders_vdf
VdfLineLibraries(line) ==
    LET l == Strip(line) IN
    IF CountQ(l) >= 4
    THEN LET value     == SplitQ(l)[4]
             steamapps == JoinPath(value, "steamapps")
         IN  IF steamapps \in existing THEN <<steamapps>> ELSE <<>>
    ELSE <<>>

RECURSIVE VdfLibraries(_)
VdfLibraries(lines) ==
    IF lines = <<>> THEN <<>>
    ELSE VdfLineLibraries(Head(lines)) \o VdfLibraries(Tail(lines))

\* parse_libraryfolders_vdf: a file that cannot be opened yields no library
parse_libraryfolders_vdf ==
    IF vdfState = "unreadable" THEN <<>> ELSE VdfLibraries(vdf)

\* a de-duplication on the paths as written
DedupeUnresolved(libs) == {libs[i] : i \in 1..Len(libs)}

\* {lib.resolve() for lib in libraries}
Dedupe(libs) == {resolve[libs[i]] : i \in 1..Len(libs)}

\* the set that find_steam_libraries turns into a list
FoundLibraries ==
    LET steam_root == find_steam_root
        default    == JoinPath(steam_root, "steamapps")
        libs       == (IF default \in existing THEN <<default>> ELSE <<>>)
                      \o (IF vdfState # "absent" THEN parse_libraryfolders_vdf ELSE <<>>)
    IN  IF steam_root = <<>> THEN {} ELSE Dedupe(libs)

\* list(set): the orders in which a set can be iterated
Orderings(S) ==
    {s \in [1..Cardinality(S) -> S] : \A i, j \in 1..Cardinality(S) : i # j => s[i] # s[j]}

\* the library list lives in the default library, which lives in the root
LibraryInputsConsistent ==
    /\ LET root == SteamRootPath(osType) IN
         /\ JoinPath(root, "steamapps") \in existing => root \in existing
         /\ vdfState # "absent" => (root # <<>> /\ JoinPath(root, "steamapps") \in existing)
    /\ vdfState # "ok" => vdf = <<>>
    /\ \A d \in LibDirs(osType) : resolve[resolve[d]] = resolve[d]

InitLibrary ==
    /\ osType \in OSTypes
    /\ existing \in SUBSET (SteamRoots(osType) \cup LibDirs(osType))
    /\ vdfState \in {"absent", "unreadable", "ok"}
    /\ vdf \in VdfContents(osType)
    /\ resolve \in [LibDirs(osType) -> LibDirs(osType)]
    /\ LibraryInputsConsistent
    /\ libraries = <<>>
    /\ lstate = "ready"
    /\ roots = <<>>
    /\ excluded = {}
    /\ mounted = {}
    /\ dirNames = {}
    /\ discovered = <<>>
    /\ ri = 1
    /\ wstate = "idle"
    /\ ParserIdle
    /\ AggIdle
    /\ CfgIdle
    /\ CmdIdle
    /\ SmIdle

\* find_steam_libraries
FindSteamLibraries ==
    /\ lstate = "ready"
    /\ libraries' \in Orderings(FoundLibraries)
    /\ lstate' = "done"
    /\ UNCHANGED <<osType, existing, vdfState, vdf, resolve>>
    /\ UNCHANGED otherThanLib

\* find_steam_libraries called once more, in another run of the program, on
\* the same directories and the same library list
FindSteamLibrariesAgain ==
    /\ lstate = "done"
    /\ libraries' \in Orderings(FoundLibraries)
    /\ lstate' = "again"
    /\ UNCHANGED <<osType, existing, vdfState, vdf, resolve>>
    /\ UNCHANGED otherThanLib

NextLibrary == FindSteamLibraries \/ FindSteamLibrariesAgain

SpecLibrary == InitLibrary /\ [][NextLibrary]_vars

\* C7: no two entries of the result have the same canonicalized path, and the
\* result is empty when the OS is unrecognized or the platform root is missing.
C7_NoDuplicateLibraries ==
    lstate = "done" =>
        /\ \A i, j \in 1..Len(libraries) :
               i # j => resolve[libraries[i]] # resolve[libraries[j]]
        /\ (osType = "unknown" \/ SteamRootPath(osType) \notin existing) => libraries = <<>>

\* the library list names the default library twice and a second directory
\* that is a symlink to it
C7_Witness ==
    /\ lstate = "done"
    /\ vdfState = "ok"
    /\ Len(vdf) = 3
    /\ vdf[1] = VdfPathLine(SteamRootPath(osType))
    /\ vdf[2] = vdf[1]
    /\ vdf[3] = VdfPathLine(<<"D1">>)
    /\ JoinPath(<<"D1">>, "steamapps") \in existing
    /\ resolve[JoinPath(<<"D1">>, "steamapps")] = JoinPath(SteamRootPath(osType), "steamapps")
    /\ Len(libraries) = 1

\* C13: for fixed library directories and a fixed library list, a second call
\* of find_steam_libraries returns the same paths in the same order as the
\* first one.
C13_DeterministicOrder ==
    [][(lstate = "done" /\ lstate' = "again") => libraries' = libraries]_vars

(***************************************************************************)
(* ManifestScanner: find_installed_steam_apps, steam_apps_to_discovered    *)
(***************************************************************************)
SteamConfidence == 60

\* int() and str() on the numeric segments that occur in manifest file names
IsIntToken(t) == t \in {"220", "70", "0", "-5"}

IntOf(t) ==
    CASE t = "220" -> 220
      [] t = "70"  -> 70
      [] t = "0"   -> 0
      [] t = "-5"  -> -5

StrOf(n) ==
    CASE n = 220 -> "220"
      [] n = 70  -> "70"
      [] n = 0   -> "0"
      [] n = -5  -> "-5"

\* int(piece): defined on a piece that is one numeric token
ParsesAsInt(piece) == Len(piece) = 1 /\ IsIntToken(piece[1])

\* Path(s): consecutive separators collapse into one
RECURSIVE PurePath(_)
PurePath(s) ==
    IF Len(s) <= 1 THEN s
    ELSE IF s[1] = "/" /\ s[2] = "/" THEN PurePath(Tail(s))
         ELSE <<Head(s)>> \o PurePath(Tail(s))

\* the lines of a manifest file
AcfPair(key, value) == <<" ", Q, key, Q, " ", " ", Q>> \o value \o <<Q>>

AcfHead == << <<Q, "AppState", Q>>, <<"{">>, AcfPair("universe", <<"1">>) >>

ManifestTexts ==
    { AcfHead \o << <<"}">> >>,
      AcfHead \o << AcfPair("name", <<"Half-Life 2">>), <<"}">> >>,
      AcfHead \o << AcfPair("name", <<>>), <<"}">> >>,
      AcfHead \o << AcfPair("name", <<"Half-Life 2">>),
                    AcfPair("installdir", <<"hl2">>), <<"}">> >> }

\* the part of the file name that the * of appmanifest_*.acf matches
ManifestSegments == { <<"220">>, <<"70">>, <<"abc">>, <<"0">>, <<"-5">> }

ManifestFiles == [seg : ManifestSegments, lines : ManifestTexts]

\* the files of one directory have pairwise distinct names
ManifestLists ==
    {fs \in UNION {[1..n -> ManifestFiles] : n \in 0..MaxManifests} :
        \A i, j \in 1..Len(fs) : i # j => fs[i].seg # fs[j].seg}

\* steamapps.glob("appmanifest_*.acf")
GlobManifests(steamapps) ==
    IF steamapps = JoinPath(SteamRootPath(osType), "steamapps") THEN manifests ELSE <<>>

\* the body of the loop over the manifests of one library
ScanManifest(steamapps, m) ==
    LET stem  == <<"appmanifest", "_">> \o m.seg
        piece == Split(stem, "_")[2]
    IN  IF ~ParsesAsInt(piece) THEN <<>>
        ELSE LET appid      == IntOf(piece[1])
                 acf        == ParseAcfText(m.lines)
                 name       == Get(acf, <<"name">>, <<"Steam App ", StrOf(appid)>>)
                 installdir == Get(acf, <<"installdir">>, <<>>)
                 install_path ==
                     IF installdir # <<>>
                     THEN steamapps \o <<"/", "common", "/">> \o installdir
                     ELSE steamapps
             IN  << [appid |-> appid, name |-> name, install_dir |-> install_path] >>

RECURSIVE ScanLibrary(_, _)
ScanLibrary(steamapps, ms) ==
    IF ms = <<>> THEN <<>>
    ELSE ScanManifest(steamapps, Head(ms)) \o ScanLibrary(steamapps, Tail(ms))

\* find_installed_steam_apps, on the list find_steam_libraries returned
RECURSIVE find_installed_steam_apps(_)
find_installed_steam_apps(libs) ==
    IF libs = <<>> THEN <<>>
    ELSE ScanLibrary(Head(libs), GlobManifests(Head(libs)))
         \o find_installed_steam_apps(Tail(libs))

SteamUriPrefix == <<"steam:", "/", "/", "run", "/">>

steam_apps_to_discovered(apps) ==
    [i \in 1..Len(apps) |->
        [name |-> apps[i].name,
         path |-> PurePath(SteamUriPrefix \o <<StrOf(apps[i].appid)>>),
         source |-> "steam", confidence |-> SteamConfidence]]

(***************************************************************************)
(* DiscoveryAggregator: filter_steam_apps, discover_steam_apps,            *)
(* discover_apps                                                           *)
(***************************************************************************)
Allowlists ==
    [state : {"missing", "unreadable", "invalid"}, keys : {{}}]
    \cup [state : {"ok"}, keys : SUBSET {"220", "70"}]

\* json_to_dict(read_file_as_text(path)) returns only for a readable file
\* that holds valid JSON; otherwise it raises
AllowlistLoads == allowlist.state = "ok"

\* the test of the loop of filter_steam_apps on one entry
IsRelated(app) ==
    LET path_str == app.path IN
    /\ StartsWith(path_str, SteamUriPrefix)
    /\ LET rest == SubSeq(path_str, Len(SteamUriPrefix) + 1, Len(path_str)) IN
         /\ ParsesAsInt(rest)
         /\ StrOf(IntOf(rest[1])) \in allowlist.keys

filter_steam_apps(apps) == SelectSeq(apps, IsRelated)

\* the loop over the roots of discover_filesystem_apps_optin
RECURSIVE WalkRoots(_)
WalkRoots(rs) ==
    IF rs = <<>> THEN <<>>
    ELSE (IF RootEnabled(Head(rs)) /\ RootExists(Head(rs))
          THEN WalkDir(Head(rs).path, <<>>, EffectiveMaxDepth(Head(rs)))
          ELSE <<>>)
         \o WalkRoots(Tail(rs))

InitDiscover ==
    /\ osType \in OSTypes
    /\ existing = SteamRoots(osType) \cup {JoinPath(r, "steamapps") : r \in SteamRoots(osType)}
    /\ vdfState = "absent"
    /\ vdf = <<>>
    /\ resolve = [d \in LibDirs(osType) |-> d]
    /\ libraries = <<>>
    /\ lstate = "idle"
    /\ roots = << [path |-> RootPaths[1], enabled |-> TRUE, recursive |-> TRUE,
                   max_depth |-> 0, label |-> "Custom"] >>
    /\ excluded = {}
    /\ mounted = {RootPaths[1]}
    /\ dirNames = {"x"}
    /\ discovered = <<>>
    /\ ri = 1
    /\ wstate = "idle"
    /\ manifests \in ManifestLists
    /\ allowlist \in Allowlists
    /\ authoritative \in BOOLEAN
    /\ steamEnabled \in BOOLEAN
    /\ platform = <<>>
    /\ results = <<>>
    /\ dstate = "start"
    /\ ParserIdle
    /\ CfgIdle
    /\ CmdIdle
    /\ SmIdle

\* discover_steam_apps(authoritative): scan, convert and, when authoritative,
\* filter; the filter raises when the allow-list does not load
DiscoverPlatform ==
    /\ dstate = "start"
    /\ steamEnabled
    /\ \E libs \in Orderings(FoundLibraries) :
         LET found == steam_apps_to_discovered(find_installed_steam_apps(libs)) IN
         IF authoritative /\ ~AllowlistLoads
         THEN /\ dstate' = "raised"
              /\ platform' = <<>>
         ELSE /\ dstate' = "platform"
              /\ platform' = IF authoritative THEN filter_steam_apps(found) ELSE found
    /\ UNCHANGED <<manifests, allowlist, authoritative, steamEnabled, results>>
    /\ UNCHANGED otherThanAgg

\* platform discovery is disabled in the config
SkipPlatform ==
    /\ dstate = "start"
    /\ ~steamEnabled
    /\ dstate' = "platform"
    /\ platform' = <<>>
    /\ UNCHANGED <<manifests, allowlist, authoritative, steamEnabled, results>>
    /\ UNCHANGED otherThanAgg

\* the filesystem walk is appended, and the list is returned
DiscoverFilesystem ==
    /\ dstate = "platform"
    /\ results' = platform \o WalkRoots(roots)
    /\ dstate' = "done"
    /\ UNCHANGED <<manifests, allowlist, authoritative, steamEnabled, platform>>
    /\ UNCHANGED otherThanAgg

NextDiscover == DiscoverPlatform \/ SkipPlatform \/ DiscoverFilesystem

SpecDiscover == InitDiscover /\ [][NextDiscover]_vars

(***************************************************************************)
(* Config store: default_roots, load_config                                *)
(***************************************************************************)
DEFAULT_EXCLUDED_DIR_NAMES ==
    {"windows", ".venv", "node_modules", "__pycache__", ".git", ".idea",
     "temp", "tmp", "videos", "pictures", "music", "gallery"}

\* the code-point order of the names, by which sorted() lists them
NameOrder ==
    <<".git", ".idea", ".venv", "Temp", "__pycache__", "gallery", "music",
      "node_modules", "pictures", "temp", "tmp", "videos", "windows", "x">>

sorted(S) == LET In(n) == n \in S IN SelectSeq(NameOrder, In)

EnvNames == {"ProgramFiles", "ProgramFiles(x86)", "LOCALAPPDATA", "ProgramData"}

Root(path, enabled, max_depth, label) ==
    [path |-> path, enabled |-> enabled, recursive |-> TRUE,
     max_depth |-> max_depth, label |-> label]

\* roots.append(...) under "if pf:" and the like; the path is the variable's value
EnvRoot(name, enabled, max_depth, label) ==
    IF name \in env THEN <<Root(name, enabled, max_depth, label)>> ELSE <<>>

\* the list default_roots builds before it filters on existence
DefaultRootCandidates ==
    IF osType = "windows"
    THEN EnvRoot("ProgramFiles", TRUE, 5, "Program Files")
         \o EnvRoot("ProgramFiles(x86)", TRUE, 5, "Program Files (x86)")
         \o EnvRoot("LOCALAPPDATA", FALSE, 4, "LocalAppData")
         \o EnvRoot("ProgramData", FALSE, 4, "ProgramData")
         \o << Root("~/Desktop", FALSE, 3, "Desktop"),
               Root("~/Downloads", FALSE, 3, "Downloads"),
               Root("~/Documents", FALSE, 3, "Documents") >>
    ELSE << Root("~/Games", FALSE, 6, "Games"),
            Root("~/.local/bin", FALSE, 2, "~/.local/bin"),
            Root("~/Downloads", FALSE, 3, "Downloads") >>

default_roots ==
    LET Exists(r) == r.path \in mounted IN SelectSeq(DefaultRootCandidates, Exists)

DefaultConfig ==
    [roots |-> default_roots,
     exclude_dir_names |-> sorted(DEFAULT_EXCLUDED_DIR_NAMES),
     steam_enabled |-> TRUE]

\* JSON text, as the tree of its values: a string, a number (its decimal
\* digits), a literal (true, false), an array, an object (its members in the
\* order of the text)
JStr(s) == [t |-> "string", v |-> s]

DigitOrder == <<"0", "1", "2", "3", "4", "5", "6", "7", "8", "9">>

RECURSIVE Decimal(_)
Decimal(n) ==
    IF n < 10 THEN <<DigitOrder[n + 1]>>
    ELSE Decimal(n \div 10) \o <<DigitOrder[(n % 10) + 1]>>

RECURSIVE ParseDecimal(_)
ParseDecimal(ds) ==
    LET DigitValue(d) == (CHOOSE i \in 1..10 : DigitOrder[i] = d) - 1 IN
    IF Len(ds) = 1 THEN DigitValue(ds[1])
    ELSE 10 * ParseDecimal(SubSeq(ds, 1, Len(ds) - 1)) + DigitValue(ds[Len(ds)])

JNum(n) == [t |-> "number", v |-> Decimal(n)]

JBool(b) == [t |-> "literal", v |-> IF b THEN "true" ELSE "false"]

JArr(elems) == [t |-> "array", v |-> elems]

JObj(members) == [t |-> "object", v |-> members]

Member(key, value) == [k |-> key, v |-> value]

\* json.dumps of a root with every field written as "enabled": true
DumpRootEnabled(r) ==
    JObj(<< Member("path", JStr(r.path)),
            Member("enabled", JBool(TRUE)),
            Member("recursive", JBool(r.recursive)),
            Member("max_depth", JNum(r.max_depth)),
            Member("label", JStr(r.label)) >>)

\* json.dumps of one root dict, its keys in insertion order
DumpRoot(r) ==
    JObj(<< Member("path", JStr(r.path)),
            Member("enabled", JBool(r.enabled)),
            Member("recursive", JBool(r.recursive)),
            Member("max_depth", JNum(r.max_depth)),
            Member("label", JStr(r.label)) >>)

\* json.dumps(cfg, indent=2)
json_dumps(c) ==
    JObj(<< Member("roots", JArr([i \in 1..Len(c.roots) |-> DumpRoot(c.roots[i])])),
            Member("exclude_dir_names",
                   JArr([i \in 1..Len(c.exclude_dir_names) |->
                            JStr(c.exclude_dir_names[i])])),
            Member("steam_enabled", JBool(c.steam_enabled)) >>)

\* the value of a key of an object: the last member of that name wins
JGet(obj, key) ==
    LET i == CHOOSE i \in 1..Len(obj.v) :
                 /\ obj.v[i].k = key
                 /\ \A j \in (i + 1)..Len(obj.v) : obj.v[j].k # key
    IN obj.v[i].v

LoadRoot(j) ==
    [path |-> JGet(j, "path").v,
     enabled |-> (JGet(j, "enabled").v = "true"),
     recursive |-> (JGet(j, "recursive").v = "true"),
     max_depth |-> ParseDecimal(JGet(j, "max_depth").v),
     label |-> JGet(j, "label").v]

\* json.loads of a config document
json_loads(j) ==
    LET rs == JGet(j, "roots").v
        ex == JGet(j, "exclude_dir_names").v
    IN [roots |-> [i \in 1..Len(rs) |-> LoadRoot(rs[i])],
        exclude_dir_names |-> [i \in 1..Len(ex) |-> ex[i].v],
        steam_enabled |-> (JGet(j, "steam_enabled").v = "true")]

\* a document edited by hand: another order of the keys, one key twice
HandEditedDocument ==
    JObj(<< Member("steam_enabled", JBool(TRUE)),
            Member("exclude_dir_names", JArr(<<JStr("Temp")>>)),
            Member("roots", JArr(<<
                JObj(<< Member("label", JStr("Custom")),
                        Member("max_depth", JNum(12)),
                        Member("recursive", JBool(FALSE)),
                        Member("enabled", JBool(TRUE)),
                        Member("path", JStr("R2")) >>) >>)),
            Member("steam_enabled", JBool(FALSE)) >>)

\* the documents a valid config file may hold
StoredDocuments ==
    { json_dumps([roots |-> <<>>, exclude_dir_names |-> <<>>, steam_enabled |-> FALSE]),
      json_dumps([roots |-> <<Root("R1", TRUE, 2, "Custom")>>,
                  exclude_dir_names |-> <<"Temp">>, steam_enabled |-> TRUE]),
      HandEditedDocument }

ConfigStores ==
    [state : {"absent", "unreadable", "corrupt"}, doc : {<<>>}]
    \cup [state : {"valid"}, doc : StoredDocuments]

\* a loader without the try block: read_text or json.loads raises
load_config_unguarded ==
    IF store.state = "absent" THEN [raised |-> FALSE, value |-> DefaultConfig]
    ELSE IF store.state = "valid"
         THEN [raised |-> FALSE, value |-> json_loads(store.doc)]
         ELSE [raised |-> TRUE, value |-> <<>>]

\* load_config: the defaults when the file is absent, and when reading or
\* parsing it raises
load_config ==
    IF store.state = "absent" THEN [raised |-> FALSE, value |-> DefaultConfig]
    ELSE IF store.state = "valid"
         THEN [raised |-> FALSE, value |-> json_loads(store.doc)]
         ELSE [raised |-> FALSE, value |-> DefaultConfig]

DefaultRootPathsOf(os) ==
    IF os = "windows"
    THEN EnvNames \cup {"~/Desktop", "~/Downloads", "~/Documents"}
    ELSE {"~/Games", "~/.local/bin", "~/Downloads"}

InitConfig ==
    /\ osType \in OSTypes
    /\ env \in (IF osType = "windows" THEN SUBSET EnvNames ELSE {{}})
    /\ mounted \in SUBSET DefaultRootPathsOf(osType)
    /\ store \in ConfigStores
    /\ loaded = <<>>
    /\ reloaded = <<>>
    /\ cstate = "start"
    /\ CmdIdle
    /\ SmIdle
    /\ roots = <<>>
    /\ excluded = {}
    /\ dirNames = {}
    /\ discovered = <<>>
    /\ ri = 1
    /\ wstate = "idle"
    /\ ParserIdle
    /\ LibIdle
    /\ AggIdle

\* cfg = load_config()
LoadConfig ==
    /\ cstate = "start"
    /\ LET r == load_config IN
         /\ cstate' = IF r.raised THEN "raised" ELSE "done"
         /\ loaded' = r.value
    /\ UNCHANGED <<store, env, reloaded>>
    /\ UNCHANGED otherThanCfg

\* save_config(cfg): the file holds json.dumps(cfg)
SaveConfig ==
    /\ cstate = "done"
    /\ store' = [state |-> "valid", doc |-> json_dumps(loaded)]
    /\ cstate' = "saved"
    /\ UNCHANGED <<env, loaded, reloaded>>
    /\ UNCHANGED otherThanCfg

\* save_config(cfg) on a file that cannot be opened: write_text raises
SaveConfigFail ==
    /\ cstate = "done"
    /\ store.state = "unreadable"
    /\ cstate' = "raised"
    /\ UNCHANGED <<store, env, loaded, reloaded>>
    /\ UNCHANGED otherThanCfg

\* load_config() after the save
ReloadConfig ==
    /\ cstate = "saved"
    /\ LET r == load_config IN
         /\ cstate' = IF r.raised THEN "raised" ELSE "reloaded"
         /\ reloaded' = r.value
    /\ UNCHANGED <<store, env, loaded>>
    /\ UNCHANGED otherThanCfg

NextConfig == LoadConfig \/ SaveConfig \/ SaveConfigFail \/ ReloadConfig

SpecConfig == InitConfig /\ [][NextConfig]_vars

\* C10: on an absent or corrupt config file load_config returns, and what it
\* returns is the OS-default structure: the well-known directories of the OS
\* that exist, the default exclusion names, platform discovery enabled.
C10_DefaultsOnAbsentOrCorrupt ==
    (cstate # "start" /\ store.state \in {"absent", "corrupt"}) =>
        /\ cstate = "done"
        /\ loaded.steam_enabled = TRUE
        /\ {loaded.exclude_dir_names[i] : i \in 1..Len(loaded.exclude_dir_names)}
               = DEFAULT_EXCLUDED_DIR_NAMES
        /\ Len(loaded.exclude_dir_names) = Cardinality(DEFAULT_EXCLUDED_DIR_NAMES)
        /\ {loaded.roots[i].path : i \in 1..Len(loaded.roots)}
               = {p \in DefaultRootPathsOf(osType) :
                     p \in mounted /\ (p \in EnvNames => p \in env)}
        /\ \A i, j \in 1..Len(loaded.roots) :
               i # j => loaded.roots[i].path # loaded.roots[j].path

\* a corrupt config file on Windows with existing default directories
C10_Witness ==
    /\ cstate = "done"
    /\ store.state = "corrupt"
    /\ osType = "windows"
    /\ Len(loaded.roots) >= 2
    /\ loaded.roots[1].path = "ProgramFiles"

\* C11: round trip. Whatever the config file was (absent, corrupt or valid),
\* after save_config(load_config()) a second load_config() returns a
\* structure equal to the one that was saved.
C11_RoundTrip ==
    cstate = "reloaded" => reloaded = loaded

\* the defaults of Windows (several roots, enabled and disabled) saved over a
\* corrupt file and loaded again
C11_Witness ==
    /\ cstate = "reloaded"
    /\ osType = "windows"
    /\ store.doc # HandEditedDocument
    /\ Len(reloaded.roots) >= 3
    /\ \E i \in 1..Len(reloaded.roots) : ~reloaded.roots[i].enabled
    /\ Len(reloaded.exclude_dir_names) = 12

\* a file edited by hand (its keys in another order, one of them twice) loaded,
\* saved and loaded again
C11_WitnessHandEdited ==
    /\ cstate = "reloaded"
    /\ store.doc # HandEditedDocument
    /\ reloaded = json_loads(HandEditedDocument)

(***************************************************************************)
(* Config commands: _normalize_path, cmd_roots_add,                        *)
(* cmd_roots_enable_disable, cmd_roots_remove                              *)
(***************************************************************************)
\* the directory a symbolic link points to, as path components
LinkTarget == << <<"r">>, <<"a">> >>

\* Path.expanduser: a leading ~ component becomes the home directory, /home
expanduser(s) ==
    IF s # <<>> /\ s[1] = "~" /\ (Len(s) = 1 \/ s[2] = "/")
    THEN <<"/", "home">> \o Tail(s)
    ELSE s

\* a relative path is taken from the working directory, /r
Absolute(s) == IF s # <<>> /\ s[1] = "/" THEN s ELSE <<"/", "r", "/">> \o s

\* the components of a path: empty pieces (repeated or trailing separators) and
\* "." are dropped
Components(s) ==
    LET Named(piece) == piece # <<>> /\ piece # <<".">> IN
    SelectSeq(Split(s, "/"), Named)

\* Path.resolve on paths without ".." components: a prefix that is a symbolic
\* link is replaced by its target
RECURSIVE ResolveParts(_, _)
ResolveParts(done, rest) ==
    IF rest = <<>> THEN done
    ELSE LET q == Append(done, Head(rest)) IN
         IF q \in links THEN ResolveParts(LinkTarget, Tail(rest))
         ELSE ResolveParts(q, Tail(rest))

\* str(path) of an absolute path
RECURSIVE PathStr(_)
PathStr(parts) ==
    IF parts = <<>> THEN <<>>
    ELSE <<"/">> \o Head(parts) \o PathStr(Tail(parts))

_normalize_path(s) ==
    LET parts == ResolveParts(<<>>, Components(Absolute(expanduser(s)))) IN
    IF parts = <<>> THEN <<"/">> ELSE PathStr(parts)

\* the path arguments given on the command line
CmdPaths ==
    { <<"/", "r", "/", "a">>,
      <<"/", "r", "/", "/", "a", "/">>,
      <<"a">>,
      <<"/", "r", "/", "l">>,
      <<"~", "/", "g">> }

\* the parsed command lines: roots add (with --enable, --disable or neither),
\* roots enable, roots disable, roots remove
Commands ==
    [op : {"add"}, path : CmdPaths, flag : {"", "--enable", "--disable"}]
    \cup [op : {"enable", "disable", "remove"}, path : CmdPaths, flag : {""}]

NoCommand == [op |-> "none", path |-> <<>>, flag |-> ""]

\* a presence test on the stored paths as they are written
AlreadyPresentVerbatim(rs, p) == \E i \in 1..Len(rs) : rs[i].path = p

\* any(_normalize_path(r["path"]) == p for r in roots)
AlreadyPresent(rs, p) == \E i \in 1..Len(rs) : _normalize_path(rs[i].path) = p

\* a command's outcome: whether it calls save_config, with which cfg, and its
\* return code
cmd_roots_add(c, args) ==
    LET rs == c.roots
        p  == _normalize_path(args.path)
    IN  IF AlreadyPresent(rs, p)
        THEN [save |-> FALSE, cfg |-> c, ret |-> 0]
        ELSE [save |-> TRUE,
              cfg  |-> [c EXCEPT !.roots =
                          Append(rs, [path |-> p,
                                      enabled |-> (IF args.flag = "--enable" THEN TRUE
                                                   ELSE IF args.flag = "--disable" THEN FALSE
                                                   ELSE TRUE),
                                      recursive |-> TRUE,
                                      max_depth |-> 4,
                                      label |-> "Custom"])],
              ret  |-> 0]

cmd_roots_enable_disable(c, args, enabled) ==
    LET rs     == c.roots
        target == _normalize_path(args.path)
        hit    == \E i \in 1..Len(rs) : _normalize_path(rs[i].path) = target
    IN  IF ~hit
        THEN [save |-> FALSE, cfg |-> c, ret |-> 1]
        ELSE [save |-> TRUE,
              cfg  |-> [c EXCEPT !.roots =
                          [i \in 1..Len(rs) |->
                              IF _normalize_path(rs[i].path) = target
                              THEN [rs[i] EXCEPT !.enabled = enabled]
                              ELSE rs[i]]],
              ret  |-> 0]

cmd_roots_remove(c, args) ==
    LET rs        == c.roots
        target    == _normalize_path(args.path)
        Kept(r)   == _normalize_path(r.path) # target
        new_roots == SelectSeq(rs, Kept)
    IN  IF Len(new_roots) = Len(rs)
        THEN [save |-> FALSE, cfg |-> c, ret |-> 1]
        ELSE [save |-> TRUE, cfg |-> [c EXCEPT !.roots = new_roots], ret |-> 0]

\* args.func(args)
RunOn(c, args) ==
    CASE args.op = "add"     -> cmd_roots_add(c, args)
      [] args.op = "enable"  -> cmd_roots_enable_disable(c, args, TRUE)
      [] args.op = "disable" -> cmd_roots_enable_disable(c, args, FALSE)
      [] args.op = "remove"  -> cmd_roots_remove(c, args)

\* the config files the commands start from: the roots of a valid file have
\* pairwise distinct normalized paths
CommandDocuments ==
    { json_dumps([roots |-> <<>>, exclude_dir_names |-> <<>>, steam_enabled |-> TRUE]),
      json_dumps([roots |-> << [path |-> <<"/", "r", "/", "a", "/">>, enabled |-> FALSE,
                                recursive |-> TRUE, max_depth |-> 2, label |-> "Mine"],
                               [path |-> <<"/", "home", "/", "g">>, enabled |-> TRUE,
                                recursive |-> TRUE, max_depth |-> 4, label |-> "Custom"] >>,
                  exclude_dir_names |-> <<"Temp">>, steam_enabled |-> FALSE]) }

CommandStores ==
    [state : {"absent", "unreadable", "corrupt"}, doc : {<<>>}]
    \cup [state : {"valid"}, doc : CommandDocuments]

\* the commands run on a Linux machine on which no default root exists
CommandEnvironment ==
    /\ osType = "linux"
    /\ env = {}
    /\ mounted = {}
    /\ links \in SUBSET { << <<"r">>, <<"l">> >> }
    /\ loaded = <<>>
    /\ reloaded = <<>>
    /\ cstate = "idle"
    /\ roots = <<>>
    /\ excluded = {}
    /\ dirNames = {}
    /\ discovered = <<>>
    /\ ri = 1
    /\ wstate = "idle"
    /\ ParserIdle
    /\ LibIdle
    /\ AggIdle
    /\ SmIdle

\* commands run one at a time: each step is one whole command
InitCommands ==
    /\ CommandEnvironment
    /\ store \in CommandStores
    /\ cmd = <<NoCommand>>
    /\ cfg = << <<>> >>
    /\ pc = <<"idle">>
    /\ ret = <<0>>
    /\ writes = <<>>

\* a command that returns: load_config, the change, save_config when it is due
RunCommand ==
    \E args \in Commands :
        LET c == load_config.value
            r == RunOn(c, args)
        IN  /\ cmd' = <<args>>
            /\ cfg' = <<c>>
            /\ ret' = <<r.ret>>
            /\ pc' = <<"done">>
            /\ store' = IF r.save THEN [state |-> "valid", doc |-> json_dumps(r.cfg)]
                         ELSE store
            /\ UNCHANGED <<links, writes>>
            /\ UNCHANGED otherThanCmd

\* a command whose save_config raises: the file cannot be written
RunCommandSaveFails ==
    /\ store.state = "unreadable"
    /\ \E args \in Commands :
        LET c == load_config.value
            r == RunOn(c, args)
        IN  /\ r.save
            /\ cmd' = <<args>>
            /\ cfg' = <<c>>
            /\ pc' = <<"raised">>
            /\ UNCHANGED <<store, links, ret, writes>>
            /\ UNCHANGED otherThanCmd

NextCommands == RunCommand \/ RunCommandSaveFails

SpecCommands == InitCommands /\ [][NextCommands]_vars

\* the roots of the config the next command will load
StoredRoots == load_config.value.roots

NormalizedPaths(rs) == {_normalize_path(rs[i].path) : i \in 1..Len(rs)}

DistinctNormalized(rs) ==
    \A i, j \in 1..Len(rs) :
        i # j => _normalize_path(rs[i].path) # _normalize_path(rs[j].path)

\* what a command that found nothing to do owes: the file as it was, and its
\* return code
NoOpCommands ==
    LET args    == cmd'[1]
        present == _normalize_path(args.path) \in NormalizedPaths(StoredRoots)
    IN  pc'[1] = "done" =>
          /\ (args.op = "add" /\ present) => (store' = store /\ ret'[1] = 0)
          /\ (args.op \in {"enable", "disable", "remove"} /\ ~present)
                 => (store' = store /\ ret'[1] = 1)

\* C15: whatever roots add / enable / disable / remove commands are run one at
\* a time, the stored roots keep pairwise distinct normalized paths; an add of
\* a path already present leaves the file unchanged and returns 0; an enable,
\* disable or remove of a path not present leaves it unchanged and returns 1.
C15_DistinctNormalizedPaths ==
    [](DistinctNormalized(StoredRoots)) /\ [][NoOpCommands]_vars

\* an add of /r/l, a symbolic link to /r/a, to a file that lists /r/a/ (another
\* spelling of the same directory) and one more root: nothing is written
C15_Witness ==
    /\ pc = <<"done">>
    /\ cmd[1].op = "add"
    /\ cmd[1].path = <<"/", "r", "/", "l">>
    /\ links # {}
    /\ ret[1] = 0
    /\ Len(cfg[1].roots) >= 2
    /\ StoredRoots = cfg[1].roots
    /\ \E i \in 1..Len(StoredRoots) :
           /\ StoredRoots[i].path = <<"/", "r", "/", "a", "/">>
           /\ _normalize_path(StoredRoots[i].path) = _normalize_path(cmd[1].path)

(***************************************************************************)
(* Two commands run at the same time, as two processes of the operating    *)
(* system: each reads the file in load_config and writes it in save_config *)
(***************************************************************************)
Procs == {1, 2}

\* len() of the strings that occur in the documents
RECURSIVE PathLen(_)
PathLen(s) ==
    IF s = <<>> THEN 0
    ELSE (IF Head(s) = "home" THEN 4 ELSE 1) + PathLen(Tail(s))

StrLen(str) ==
    CASE str \in {"tmp"} -> 3
      [] str \in {"Mine", "Temp", "temp", ".git"} -> 4
      [] str \in {".venv", ".idea", "music"} -> 5
      [] str \in {"Custom", "videos"} -> 6
      [] str \in {"windows", "gallery"} -> 7
      [] str \in {"pictures"} -> 8
      [] str \in {"__pycache__"} -> 11
      [] str \in {"node_modules"} -> 12

BoolLen(b) == IF b THEN 4 ELSE 5

\* the characters one root takes in json.dumps(cfg, indent=2)
RootSize(r) ==
    110 + PathLen(r.path) + BoolLen(r.enabled) + BoolLen(r.recursive)
        + Len(Decimal(r.max_depth)) + StrLen(r.label)

RECURSIVE RootsSize(_)
RootsSize(rs) == IF rs = <<>> THEN 0 ELSE RootSize(Head(rs)) + RootsSize(Tail(rs))

RECURSIVE NamesSize(_)
NamesSize(ns) == IF ns = <<>> THEN 0 ELSE 8 + StrLen(Head(ns)) + NamesSize(Tail(ns))

\* len(json.dumps(cfg, indent=2)); a list that is not empty is written on
\* several lines
TextSize(c) ==
    65 + BoolLen(c.steam_enabled)
       + (IF c.roots = <<>> THEN 0 ELSE 2) + RootsSize(c.roots)
       + (IF c.exclude_dir_names = <<>> THEN 0 ELSE 2) + NamesSize(c.exclude_dir_names)

\* the cfg a command hands to save_config
SavedCfg(p) == RunOn(cfg[p], cmd[p]).cfg

\* the file after a process wrote its text from offset 0: what the other
\* process wrote since the truncation stays beyond the end of the new text
WrittenOver(c) ==
    IF store.state = "valid" /\ TextSize(c) < TextSize(json_loads(store.doc))
    THEN [state |-> "torn", doc |-> <<>>]
    ELSE [state |-> "valid", doc |-> json_dumps(c)]

InitRace ==
    /\ CommandEnvironment
    /\ store \in {st \in CommandStores : st.state # "unreadable"}
    /\ cmd = <<NoCommand, NoCommand>>
    /\ cfg = << <<>>, <<>> >>
    /\ pc = <<"idle", "idle">>
    /\ ret = <<0, 0>>
    /\ writes = <<>>

\* cfg = load_config(), the first statement of every command
RaceLoad(p) ==
    /\ pc[p] = "idle"
    /\ \E args \in Commands : cmd' = [cmd EXCEPT ![p] = args]
    /\ cfg' = [cfg EXCEPT ![p] = load_config.value]
    /\ pc' = [pc EXCEPT ![p] = "loaded"]
    /\ UNCHANGED <<store, links, ret, writes>>
    /\ UNCHANGED otherThanCmd

\* save_config, first half: write_text opens the file, which truncates it;
\* writes also records which processes had loaded and not yet finished
RaceOpen(p) ==
    /\ pc[p] = "loaded"
    /\ RunOn(cfg[p], cmd[p]).save
    /\ store' = [state |-> "empty", doc |-> <<>>]
    /\ writes' = Append(writes, [proc |-> p, ev |-> "open", doc |-> json_dumps(SavedCfg(p)),
                                 pending |-> {q \in Procs \ {p} : pc[q] = "loaded"}])
    /\ pc' = [pc EXCEPT ![p] = "opened"]
    /\ UNCHANGED <<links, cmd, cfg, ret>>
    /\ UNCHANGED otherThanCmd

\* save_config, second half: the text is written and the file closed; the
\* command returns
RaceWrite(p) ==
    /\ pc[p] = "opened"
    /\ store' = WrittenOver(SavedCfg(p))
    /\ writes' = Append(writes, [proc |-> p, ev |-> "write", doc |-> json_dumps(SavedCfg(p)),
                                 pending |-> {q \in Procs \ {p} : pc[q] = "loaded"}])
    /\ ret' = [ret EXCEPT ![p] = RunOn(cfg[p], cmd[p]).ret]
    /\ pc' = [pc EXCEPT ![p] = "done"]
    /\ UNCHANGED <<links, cmd, cfg>>
    /\ UNCHANGED otherThanCmd

\* the rest of a command that returns without saving
RaceReturn(p) ==
    /\ pc[p] = "loaded"
    /\ ~RunOn(cfg[p], cmd[p]).save
    /\ ret' = [ret EXCEPT ![p] = RunOn(cfg[p], cmd[p]).ret]
    /\ pc' = [pc EXCEPT ![p] = "done"]
    /\ UNCHANGED <<store, links, cmd, cfg, writes>>
    /\ UNCHANGED otherThanCmd

NextRace == \E p \in Procs : RaceLoad(p) \/ RaceOpen(p) \/ RaceWrite(p) \/ RaceReturn(p)

SpecRace == InitRace /\ [][NextRace]_vars

\* both commands saved, and both had loaded before either began to save
BothLoadedBeforeEitherSaved ==
    /\ Len(writes) = 4
    /\ writes[1].pending = Procs \ {writes[1].proc}

\* C14: when two commands both load the file before either saves, the file
\* finally holds exactly the document of the later save; that document is what
\* the later command makes of the file as it was before both, so the earlier
\* writer's change is not in it (of two adds of different paths, only the
\* later path is stored).
C14_LastWriterWins ==
    BothLoadedBeforeEitherSaved
    => LET last  == writes[4].proc
           first == CHOOSE q \in Procs : q # last
       IN  /\ store = [state |-> "valid", doc |-> writes[4].doc]
           /\ store.doc = json_dumps(RunOn(cfg[first], cmd[last]).cfg)
           /\ (/\ cmd[first].op = "add"
               /\ cmd[last].op = "add"
               /\ _normalize_path(cmd[first].path) # _normalize_path(cmd[last].path))
              => /\ _normalize_path(cmd[first].path) \notin NormalizedPaths(StoredRoots)
                 /\ _normalize_path(cmd[last].path) \in NormalizedPaths(StoredRoots)

\* the same when the two saves do not overlap: the second command opens the
\* file after the first one wrote it
C14_LastWriterWinsWhenSavesDoNotOverlap ==
    (BothLoadedBeforeEitherSaved /\ writes[2].ev = "write")
    => LET last  == writes[4].proc
           first == writes[1].proc
       IN  /\ store = [state |-> "valid", doc |-> writes[4].doc]
           /\ store.doc = json_dumps(RunOn(cfg[first], cmd[last]).cfg)
           /\ (/\ cmd[first].op = "add"
               /\ cmd[last].op = "add"
               /\ _normalize_path(cmd[first].path) # _normalize_path(cmd[last].path))
              => /\ _normalize_path(cmd[first].path) \notin NormalizedPaths(StoredRoots)
                 /\ _normalize_path(cmd[last].path) \in NormalizedPaths(StoredRoots)

(***************************************************************************)
(* Walker claims, stated on the paths of the returned entries              *)
(***************************************************************************)
\* the hard-coded junk names of should_skip_dir
JunkDirNames == {".venv", "node_modules"}

SlashPositions(path) == {i \in 1..Len(path) : path[i] = "/"}

\* number of directory components between the root and the file
FileDepth(app) == Cardinality(SlashPositions(app.path)) - 1

\* the names of the directories between the root and the file
DirComponents(app) ==
    LET sl == SlashPositions(app.path) IN
    {app.path[i + 1] : i \in {j \in sl : \E l \in sl : l > j}}

Returned == {discovered[k] : k \in 1..Len(discovered)}

ReturnedFrom(r) == {app \in Returned : app.path[1] = r.path}

AllDirs == UNION {[1..n -> dirNames] : n \in 0..MaxTreeDepth}

LaunchableFiles ==
    {FileNameOrder[i] : i \in {j \in 1..Len(FileNameOrder) : IsLaunchable(FileNameOrder[j])}}

\* the launchable files of root r at depth at most bound, outside every
\* directory whose lowercased name is in the exclusion set
FilesWithin(r, bound) ==
    {PathOf(r.path, d, fn) :
        d \in {e \in AllDirs : /\ Len(e) <= bound
                               /\ \A j \in 1..Len(e) : LowerToken(e[j]) \notin excluded},
        fn \in LaunchableFiles}

\* C1: for an enabled root with recursive = true and max_depth >= 0, no
\* returned file has more than max_depth directory components between the
\* root and the file, and (when the root exists) every launchable file at
\* depth at most max_depth, outside excluded directories, is returned.
C1_DepthBound ==
    wstate = "done" =>
        \A i \in 1..Len(roots) :
            (roots[i].enabled /\ roots[i].recursive /\ roots[i].max_depth >= 0) =>
                /\ \A app \in ReturnedFrom(roots[i]) : FileDepth(app) <= roots[i].max_depth
                /\ roots[i].path \in mounted =>
                       \A f \in FilesWithin(roots[i], roots[i].max_depth) :
                           \E app \in Returned : app.path = f

\* max_depth = 2 on Windows: R/a.exe and R/x/x/a.exe are returned, R/x/x/x/a.exe is not
C1_Witness ==
    /\ wstate = "done"
    /\ osType = "windows"
    /\ roots[1].enabled /\ roots[1].recursive /\ roots[1].max_depth = 2
    /\ \E app \in Returned : app.path = <<"R1", "/", "a", ".", "exe">>
    /\ \E app \in Returned : app.path = <<"R1", "/", "x", "/", "x", "/", "a", ".", "exe">>
    /\ ~\E app \in Returned :
           app.path = <<"R1", "/", "x", "/", "x", "/", "x", "/", "a", ".", "exe">>

\* C2: for an enabled root with recursive = false, every returned file is a
\* direct child of the root (depth 0).
C2_NonRecursiveOnlyDirectChildren ==
    wstate = "done" =>
        \A i \in 1..Len(roots) :
            (roots[i].enabled /\ ~roots[i].recursive) =>
                \A app \in ReturnedFrom(roots[i]) : FileDepth(app) = 0

\* C3: no returned file lies below a directory whose name equals an entry of
\* the exclusion set under case-insensitive comparison, or whose name is in
\* the built-in junk list.
C3_NoExcludedDirEntered ==
    wstate = "done" =>
        \A app \in Returned :
            \A d \in DirComponents(app) :
                /\ ~\E e \in excluded : LowerToken(e) = LowerToken(d)
                /\ LowerToken(d) \notin JunkDirNames

\* C9: no file comes from a root that is disabled or does not exist, and
\* every enabled, existing root of the sequence contributes all its files
\* within its depth bound.
C9_SkippedRoots ==
    wstate = "done" =>
        \A i \in 1..Len(roots) :
            IF roots[i].enabled /\ roots[i].path \in mounted
            THEN {app.path : app \in ReturnedFrom(roots[i])}
                     = FilesWithin(roots[i], EffectiveMaxDepth(roots[i]))
            ELSE ReturnedFrom(roots[i]) = {}

\* a disabled first root that exists, followed by an enabled root that is walked
C9_Witness ==
    /\ wstate = "done"
    /\ Len(roots) = 2
    /\ ~roots[1].enabled
    /\ roots[1].path \in mounted
    /\ roots[2].enabled
    /\ roots[2].path \in mounted
    /\ ReturnedFrom(roots[1]) = {}
    /\ ReturnedFrom(roots[2]) # {}

(***************************************************************************)
(* Aggregator claims                                                       *)
(***************************************************************************)
IsPlatformEntry(app) == app.source = "steam"

IsFilesystemEntry(app) == app.source = "filesystem"

PlatformPart(res) == SelectSeq(res, IsPlatformEntry)

FilesystemPart(res) == SelectSeq(res, IsFilesystemEntry)

\* what the scan of the libraries yields, before any filtering
ScannedEntries ==
    steam_apps_to_discovered(
        find_installed_steam_apps(CHOOSE libs \in Orderings(FoundLibraries) : TRUE))

\* the app identifier embedded in a launch identifier, as a decimal string
EmbeddedId(app) == app.path[Len(app.path)]

IsAllowed(app) == EmbeddedId(app) \in allowlist.keys

\* the files the walk owes: those of every enabled, existing root
WalkedFiles ==
    UNION {FilesWithin(roots[i], EffectiveMaxDepth(roots[i])) :
             i \in {j \in 1..Len(roots) : roots[j].enabled /\ roots[j].path \in mounted}}

\* C4: with authoritative = true and an allow-list that is empty, missing,
\* unreadable or not valid JSON, discovery returns (does not raise), returns
\* no platform-sourced entry, and still returns the filesystem-sourced ones.
C4_FailClosedWithoutRaising ==
    (/\ dstate \in {"done", "raised"}
     /\ authoritative
     /\ (allowlist.state # "ok" \/ allowlist.keys = {}))
    => /\ dstate = "done"
       /\ PlatformPart(results) = <<>>
       /\ {FilesystemPart(results)[k].path : k \in 1..Len(FilesystemPart(results))}
              = WalkedFiles

\* C5: with a loadable allow-list, the platform-sourced part of the result is
\* every scanned entry when authoritative is false, and exactly the scanned
\* entries whose app identifier is a key of the allow-list when it is true.
C5_PlatformPartByFlag ==
    (dstate = "done" /\ steamEnabled /\ allowlist.state = "ok")
    => PlatformPart(results)
           = IF authoritative THEN SelectSeq(ScannedEntries, IsAllowed)
             ELSE ScannedEntries

\* C8: every returned entry has a non-empty name and a non-empty path.
C8_NonEmptyNameAndPath ==
    \A k \in 1..Len(results) : results[k].name # <<>> /\ results[k].path # <<>>

\* the records find_installed_steam_apps returns on the libraries found
ScannedApps ==
    find_installed_steam_apps(CHOOSE libs \in Orderings(FoundLibraries) : TRUE)

\* C12: the scan skips a manifest whose file-name segment does not parse as an
\* id and goes on with the other files (each manifest with a positive id has
\* its record), and every record it returns has a positive appid.
C12_PositiveAppIds ==
    (dstate \in {"platform", "done"} /\ steamEnabled /\ FoundLibraries # {})
    => /\ \A i \in 1..Len(manifests) :
              (ParsesAsInt(manifests[i].seg) /\ IntOf(manifests[i].seg[1]) > 0)
              => \E k \in 1..Len(ScannedApps) :
                     ScannedApps[k].appid = IntOf(manifests[i].seg[1])
       /\ \A k \in 1..Len(ScannedApps) : ScannedApps[k].appid > 0

(***************************************************************************)
(* SensorStub, StateMachine and the loop of main                           *)
(***************************************************************************)
SensorStates == {"CLEAR", "BLOCKED"}

\* SensorStub.toggle
toggle(st) == IF st = "CLEAR" THEN "BLOCKED" ELSE "CLEAR"

\* StateMachine._handle_transition: the vr_state it leaves
_handle_transition(prev, curr) ==
    IF prev = "CLEAR" /\ curr = "BLOCKED" THEN "INSIDE_VR"
    ELSE IF prev = "BLOCKED" /\ curr = "CLEAR" THEN "OUTSIDE_VR"
    ELSE vr_state

\* StateMachine.update: the first call only records the sensor state
update(sensor_state) ==
    IF _last_sensor_state = "None"
    THEN /\ _last_sensor_state' = sensor_state
         /\ UNCHANGED vr_state
    ELSE IF sensor_state # _last_sensor_state
         THEN /\ vr_state' = _handle_transition(_last_sensor_state, sensor_state)
              /\ _last_sensor_state' = sensor_state
         ELSE UNCHANGED <<vr_state, _last_sensor_state>>

\* SensorStub() and StateMachine(), driven by the loop of main or by any
\* caller of update
InitSensor ==
    /\ sensor = "CLEAR"
    /\ vr_state = "OUTSIDE_VR"
    /\ _last_sensor_state = "None"
    /\ readings = <<>>
    /\ driver \in {"main", "any"}
    /\ ParserIdle
    /\ WalkerIdle
    /\ LibIdle
    /\ AggIdle
    /\ CfgIdle
    /\ CmdIdle

\* one turn of the loop of main: ENTER is pressed, the sensor is toggled,
\* read, and handed to update
PressEnter ==
    /\ driver = "main"
    /\ Len(readings) < MaxReadings
    /\ sensor' = toggle(sensor)
    /\ update(sensor')
    /\ readings' = Append(readings, sensor')
    /\ UNCHANGED driver
    /\ UNCHANGED otherThanSm

\* update called with an arbitrary reading
UpdateAny ==
    /\ driver = "any"
    /\ Len(readings) < MaxReadings
    /\ \E st \in SensorStates :
         /\ update(st)
         /\ readings' = Append(readings, st)
    /\ UNCHANGED <<sensor, driver>>
    /\ UNCHANGED otherThanSm

NextSensor == PressEnter \/ UpdateAny

SpecSensor == InitSensor /\ [][NextSensor]_vars

\* C16: after every call of update, the first one included, vr_state is
\* INSIDE_VR exactly when the reading just supplied is BLOCKED and OUTSIDE_VR
\* exactly when it is CLEAR; ENTERING_VR and EXITING_VR are never reached.
C16_VrStateFollowsSensor ==
    /\ vr_state \notin {"ENTERING_VR", "EXITING_VR"}
    /\ readings # <<>> =>
          /\ (vr_state = "INSIDE_VR") <=> (readings[Len(readings)] = "BLOCKED")
          /\ (vr_state = "OUTSIDE_VR") <=> (readings[Len(readings)] = "CLEAR")

====
